---------------------------- MODULE Spec2Model ----------------------------
(***************************************************************************)
(* A model of the 2D geometry core of the raycaster: the collider queries  *)
(* of colliders2d.mjs (CircleCollider, AABBCollider), the DDA grid walk    *)
(* of Ray2D.cast and the column fan of RayCamera2D.rayCast (camera2d.mjs). *)
(*                                                                         *)
(* Numbers.  A JavaScript number is modelled as a pair <<n, d>>:           *)
(*   d > 0, gcd(|n|, d) = 1   the rational n/d, computed exactly;          *)
(*   <<1, 0>>, <<-1, 0>>      +Infinity, -Infinity;                        *)
(*   <<0, 0>>                 NaN.                                         *)
(* The operators below follow the IEEE-754 rules for the special values    *)
(* (x/0, 0/0, 0*Infinity, Infinity-Infinity, comparisons with NaN).        *)
(* Rounding is not modelled: finite arithmetic is exact.  The sign of a    *)
(* zero is not modelled: every zero is +0.  Square roots are taken only of *)
(* squares of rationals; the actions are guarded so that no other root is  *)
(* asked for.                                                              *)
(***************************************************************************)
EXTENDS Integers, Sequences, FiniteSets, TLC

-----------------------------------------------------------------------------
(* Bounds of the model *)

\* coordinates of the arguments of a query range over -MaxCoord..MaxCoord
MaxCoord == 2
\* radii and half-extents of the arguments range over 0..MaxRadius
MaxRadius == 2
\* a vector is rotated at most MaxRotations times in a row
MaxRotations == 2

-----------------------------------------------------------------------------
(* JavaScript numbers *)

IAbs(i) == IF i < 0 THEN -i ELSE i
ISgn(i) == IF i < 0 THEN -1 ELSE IF i > 0 THEN 1 ELSE 0

RECURSIVE GCD(_, _)
GCD(a, b) == IF b = 0 THEN a ELSE GCD(b, a % b)

\* the number n/d in canonical form (d = 0 gives an infinity or NaN)
Norm(n, d) ==
  LET reduced(g) == <<(ISgn(d) * n) \div g, IAbs(d) \div g>>
  IN  IF d = 0 THEN <<ISgn(n), 0>> ELSE reduced(GCD(IAbs(n), IAbs(d)))

NaN    == <<0, 0>>
PosInf == <<1, 0>>
NegInf == <<-1, 0>>
Num(i) == <<i, 1>>
Zero   == Num(0)
One    == Num(1)

IsNaN(a)    == a = NaN
IsFinite(a) == a[2] # 0
IsInf(a)    == a[2] = 0 /\ a[1] # 0

\* a + b
Add(a, b) ==
  IF IsNaN(a) \/ IsNaN(b) THEN NaN
  ELSE IF IsInf(a) /\ IsInf(b) THEN (IF a = b THEN a ELSE NaN)
  ELSE IF IsInf(a) THEN a
  ELSE IF IsInf(b) THEN b
  ELSE Norm(a[1] * b[2] + b[1] * a[2], a[2] * b[2])

\* -a
Neg(a) == <<-a[1], a[2]>>

\* a - b
Sub(a, b) == Add(a, Neg(b))

\* a * b  (0 * Infinity and NaN * x are NaN)
Mul(a, b) == Norm(a[1] * b[1], a[2] * b[2])

\* a / b  (x/0 is an infinity of x's sign, 0/0 is NaN, x/Infinity is 0)
Recip(b) == IF b = Zero THEN PosInf ELSE <<ISgn(b[1]) * b[2], IAbs(b[1])>>
Div(a, b) == Mul(a, Recip(b))

\* a < b, a <= b, a > b, a >= b, a === b: all false when either is NaN
Lt(a, b) ==
  /\ ~IsNaN(a)
  /\ ~IsNaN(b)
  /\ IF IsInf(a) \/ IsInf(b)
       THEN /\ a # b
            /\ \/ a = NegInf
               \/ b = PosInf
       ELSE a[1] * b[2] < b[1] * a[2]
Eq(a, b) == ~IsNaN(a) /\ ~IsNaN(b) /\ a = b
Le(a, b) == Lt(a, b) \/ Eq(a, b)
Gt(a, b) == Lt(b, a)
Ge(a, b) == Le(b, a)

\* Math.abs, Math.sign, Math.min, Math.max, Math.floor
Abs(a)  == <<IAbs(a[1]), a[2]>>
Sign(a) == IF IsNaN(a) THEN NaN ELSE Num(ISgn(a[1]))
MathMin(a, b) == IF IsNaN(a) \/ IsNaN(b) THEN NaN ELSE IF Lt(b, a) THEN b ELSE a
MathMax(a, b) == IF IsNaN(a) \/ IsNaN(b) THEN NaN ELSE IF Lt(a, b) THEN b ELSE a
Floor(a) == IF IsFinite(a) THEN Num(a[1] \div a[2]) ELSE a

\* can the model take the square root of a exactly?
IsSquareInt(i) == \E k \in 0..i : k * k = i
HasSqrt(a) == (IsFinite(a) /\ a[1] >= 0) => (IsSquareInt(a[1]) /\ IsSquareInt(a[2]))
ISqrt(i) == CHOOSE k \in 0..i : k * k = i

\* Math.sqrt
Sqrt(a) ==
  IF IsNaN(a) \/ a[1] < 0 THEN NaN
  ELSE IF IsInf(a) THEN a
  ELSE <<ISqrt(a[1]), ISqrt(a[2])>>

\* Math.clamp, as the module defines it
Clamp(val, min, max) == MathMax(min, MathMin(val, max))


-----------------------------------------------------------------------------
(* JavaScript values that are not numbers.  They are pairs too, with a     *)
(* negative second component, so that a parameter can hold either.         *)

\* the value of a parameter the caller did not pass
Undefined == <<0, -1>>
\* a reference to an object (a collider passed where a number is expected)
ObjectRef == <<0, -2>>
\* the conversion an arithmetic operator applies to its operand: undefined
\* and an object without valueOf both convert to NaN
ToNumber(v) == IF v[2] < 0 THEN NaN ELSE v

\* the results of a query: null, a boolean, a hit object, or a TypeError
\* thrown on reading a property of null
Null == [kind |-> "null"]
TypeError == [kind |-> "TypeError"]
Bool(b) == [kind |-> "bool", value |-> b]
Hit(delta, normal, pos) ==
  [kind |-> "hit", delta |-> delta, normal |-> normal, pos |-> pos]
IsHit(h) == h.kind = "hit"
Vec(x, y) == [x |-> x, y |-> y]

-----------------------------------------------------------------------------
(* The operators below name the local variables of the source as the       *)
(* parameters of local operators, innermost step first: each local         *)
(* operator is one step of the method, applied to the values the           *)
(* preceding steps computed.                                               *)
-----------------------------------------------------------------------------
(* types2d.mjs *)

\* Point2D.distanceTo2
distanceTo2(this, point) ==
  LET sum(x, y) == Add(Mul(x, x), Mul(y, y))
  IN  sum(Sub(point.x, this.x), Sub(point.y, this.y))

\* Vector2D.magnitude (getter)
magnitude(this) == Sqrt(Add(Mul(this.x, this.x), Mul(this.y, this.y)))

\* a variant of normalize that leaves a vector of magnitude 0 alone
normalize_guarded(this) ==
  LET divided(mag) ==
        IF mag = Zero THEN this
        ELSE [this EXCEPT !.x = Div(@, mag), !.y = Div(@, mag)]
  IN  divided(magnitude(this))

\* Vector2D.normalize: the vector after the call
normalize(this) ==
  LET divided(mag) == [this EXCEPT !.x = Div(@, mag), !.y = Div(@, mag)]
  IN  divided(magnitude(this))

\* Vector2D.magnitude (setter): the vector after the assignment
magnitude_set(this, val) ==
  LET scaled(unit) == [unit EXCEPT !.x = Mul(@, val), !.y = Mul(@, val)]
  IN  scaled(normalize(this))

\* a variant of rotate that turns the same way whatever the direction
rotate_oneWay(this, x, y, direction) ==
  [this EXCEPT !.x = Add(Mul(this.x, x), Mul(Mul(this.y, Num(-1)), y)),
               !.y = Add(Mul(this.x, y), Mul(this.y, x))]

\* Vector2D.rotate: the vector after the call
rotate(this, x, y, direction) ==
  LET \* this._x = tX; this._y = tY
      turned(tX, tY) == [this EXCEPT !.x = tX, !.y = tY]
  IN  \* tX = this._x * x + (this._y * -direction) * y
      \* tY = (this._x * y + (this._y * direction) * x) * direction
      turned(Add(Mul(this.x, x), Mul(Mul(this.y, Neg(direction)), y)),
             Mul(Add(Mul(this.x, y), Mul(Mul(this.y, direction), x)), direction))

\* Vector2D.rotateByVector
rotateByVector(this, vector) == rotate(this, vector.x, vector.y, One)

\* Vector2D.unrotateByVector
unrotateByVector(this, vector) == rotate(this, vector.x, vector.y, Num(-1))

-----------------------------------------------------------------------------
(* colliders2d.mjs: CircleCollider *)

\* a variant of collision that counts touching circles as colliding (<=)
Circle_collision_inclusive(this, circle) ==
  LET test(cR) == Le(distanceTo2(this, circle), Mul(cR, cR))
  IN  test(Add(this.radius, circle.radius))

\* CircleCollider.collision
Circle_collision(this, circle) ==
  LET test(cR) == Lt(distanceTo2(this, circle), Mul(cR, cR))
  IN  test(Add(this.radius, circle.radius))

\* a variant of intersection whose normal points from the other centre to
\* this one (n in place of -n)
Circle_intersection_inward(this, x, y, radius) ==
  LET result(n, offset) ==
        Hit(Vec(Neg(Mul(n.x, offset)), Neg(Mul(n.y, offset))),
            Vec(n.x, n.y),
            Vec(Sub(this.x, Mul(n.x, this.radius)),
                Sub(this.y, Mul(n.y, this.radius))))
      inside(d, cR, dist) ==
        result(Vec(Div(d.x, dist), Div(d.y, dist)), Sub(cR, dist))
      test(d, cR, dist2) ==
        IF Lt(dist2, Mul(cR, cR)) THEN inside(d, cR, Sqrt(dist2)) ELSE Null
      between(d, cR) == test(d, cR, Add(Mul(d.x, d.x), Mul(d.y, d.y)))
  IN  between(Vec(Sub(this.x, x), Sub(this.y, y)), Add(this.radius, radius))

\* CircleCollider.intersection
Circle_intersection(this, x, y, radius) ==
  LET \* v = n * offset, p = this - n * this.radius; the returned hit
      result(n, offset) ==
        Hit(Vec(Neg(Mul(n.x, offset)), Neg(Mul(n.y, offset))),
            Vec(Neg(n.x), Neg(n.y)),
            Vec(Sub(this.x, Mul(n.x, this.radius)),
                Sub(this.y, Mul(n.y, this.radius))))
      \* offset = cR - dist, n = d / dist
      inside(d, cR, dist) ==
        result(Vec(Div(d.x, dist), Div(d.y, dist)), Sub(cR, dist))
      \* r2 = cR * cR; if (dist2 < r2): dist = Math.sqrt(dist2)
      test(d, cR, dist2) ==
        IF Lt(dist2, Mul(cR, cR)) THEN inside(d, cR, Sqrt(dist2)) ELSE Null
      \* dist2 = d.x * d.x + d.y * d.y
      between(d, cR) == test(d, cR, Add(Mul(d.x, d.x), Mul(d.y, d.y)))
  IN  \* d = this - (x, y), cR = this._radius + radius
      between(Vec(Sub(this.x, x), Sub(this.y, y)), Add(this.radius, radius))

\* the square root CircleCollider.intersection takes is one the model has
Circle_intersection_exact(this, x, y, radius) ==
  LET test(cR, dist2) == Lt(dist2, Mul(cR, cR)) => HasSqrt(dist2)
      between(d, cR) == test(cR, Add(Mul(d.x, d.x), Mul(d.y, d.y)))
  IN  between(Vec(Sub(this.x, x), Sub(this.y, y)), Add(this.radius, radius))

\* CircleCollider.pointIntersection
Circle_pointIntersection(this, point) ==
  Circle_intersection(this, point.x, point.y, Zero)

\* CircleCollider.circleIntersection
Circle_circleIntersection(this, circle) ==
  Circle_intersection(this, circle.x, circle.y, circle.radius)

-----------------------------------------------------------------------------
(* colliders2d.mjs: AABBCollider *)

\* a variant of intersection that reports touching boxes as a hit
\* (the early returns test < 0 in place of <= 0)
AABB_intersection_touching(this, x, y, rX, rY) ==
  LET hitX(pX, sX) ==
        Hit(Vec(Mul(pX, sX), Zero), Vec(sX, Zero),
            Vec(Add(this.x, Mul(this.rX, sX)), y))
      hitY(pY, sY) ==
        Hit(Vec(Zero, Mul(pY, sY)), Vec(Zero, sY),
            Vec(x, Add(this.y, Mul(this.rY, sY))))
      test(dX, pX, dY, pY) ==
        IF Lt(pX, Zero) THEN Null
        ELSE IF Lt(pY, Zero) THEN Null
        ELSE IF Le(pX, pY) THEN hitX(pX, Sign(dX))
        ELSE hitY(pY, Sign(dY))
      depth(dX, dY) ==
        test(dX, Sub(Add(ToNumber(rX), this.rX), Abs(dX)),
             dY, Sub(Add(ToNumber(rY), this.rY), Abs(dY)))
  IN  depth(Sub(ToNumber(x), this.x), Sub(ToNumber(y), this.y))

\* AABBCollider.intersection
AABB_intersection(this, x, y, rX, rY) ==
  LET \* the hit along x
      hitX(pX, sX) ==
        Hit(Vec(Mul(pX, sX), Zero), Vec(sX, Zero),
            Vec(Add(this.x, Mul(this.rX, sX)), y))
      \* the hit along y
      hitY(pY, sY) ==
        Hit(Vec(Zero, Mul(pY, sY)), Vec(Zero, sY),
            Vec(x, Add(this.y, Mul(this.rY, sY))))
      test(dX, pX, dY, pY) ==
        IF Le(pX, Zero) THEN Null
        ELSE IF Le(pY, Zero) THEN Null
        ELSE IF Le(pX, pY) THEN hitX(pX, Sign(dX))
        ELSE hitY(pY, Sign(dY))
      \* pX = (rX + this._rX) - |dX|, pY = (rY + this._rY) - |dY|
      depth(dX, dY) ==
        test(dX, Sub(Add(ToNumber(rX), this.rX), Abs(dX)),
             dY, Sub(Add(ToNumber(rY), this.rY), Abs(dY)))
  IN  \* dX = x - this._x, dY = y - this._y
      depth(Sub(ToNumber(x), this.x), Sub(ToNumber(y), this.y))

\* AABBCollider.pointIntersection
AABB_pointIntersection(this, point) ==
  AABB_intersection(this, point.x, point.y, Zero, Zero)

\* AABBCollider.boxIntersection
AABB_boxIntersection(this, box) ==
  AABB_intersection(this, box.x, box.y, box.rX, box.rY)

\* AABBCollider.circleIntersection
AABB_circleIntersection(this, circle) ==
  AABB_intersection(this, circle.x, circle.y, circle.radius, circle.radius)

\* a variant of the rejection test that keeps a segment ending exactly on
\* the boundary (> 1 in place of >= 1, < 0 in place of <= 0)
segmentOutside_strict(nearTime, farTime) ==
  Gt(nearTime, One) \/ Lt(farTime, Zero)

\* AABBCollider.vectorIntersection: if (nearTime >= 1 || farTime <= 0)
segmentOutside(nearTime, farTime) ==
  Ge(nearTime, One) \/ Le(farTime, Zero)

\* AABBCollider.vectorIntersection: hit.time = Math.clamp(nearTime, 0, 1)
hitTime(nearTime) == Clamp(nearTime, Zero, One)

\* AABBCollider.vectorIntersection: hit.pos = origin + vector * hit.time
hitPos(origin, vector, time) ==
  Vec(Add(origin.x, Mul(vector.x, time)),
      Add(origin.y, Mul(vector.y, time)))

\* a variant of hit.delta that points along the vector
hitDelta_forward(vector, time) ==
  Vec(Mul(Sub(One, time), vector.x),
      Mul(Sub(One, time), vector.y))

\* AABBCollider.vectorIntersection: hit.delta = (1.0 - hit.time) * -vector
hitDelta(vector, time) ==
  Vec(Mul(Sub(One, time), Neg(vector.x)),
      Mul(Sub(One, time), Neg(vector.y)))

\* AABBCollider.vectorIntersection
AABB_vectorIntersection(this, origin, vector, pX, pY) ==
  LET \* the returned hit
      result(nearTimeX, nearTimeY, signX, signY, time) ==
        [kind   |-> "hit",
         time   |-> time,
         normal |-> IF Gt(nearTimeX, nearTimeY)
                      THEN Vec(Neg(signX), Zero)
                      ELSE Vec(Zero, Neg(signY)),
         delta  |-> hitDelta(vector, time),
         pos    |-> hitPos(origin, vector, time)]
      \* if (nearTime >= 1 || farTime <= 0) return null
      within(nearTimeX, nearTimeY, signX, signY, nearTime, farTime) ==
        IF segmentOutside(nearTime, farTime) THEN Null
        ELSE result(nearTimeX, nearTimeY, signX, signY, hitTime(nearTime))
      \* if (nearTimeX > farTimeY || nearTimeY > farTimeX) return null
      times(nearTimeX, nearTimeY, farTimeX, farTimeY, signX, signY) ==
        IF Gt(nearTimeX, farTimeY) \/ Gt(nearTimeY, farTimeX) THEN Null
        ELSE within(nearTimeX, nearTimeY, signX, signY,
                    IF Gt(nearTimeX, nearTimeY) THEN nearTimeX ELSE nearTimeY,
                    IF Lt(farTimeX, farTimeY) THEN farTimeX ELSE farTimeY)
      slabs(scaleX, scaleY, signX, signY) ==
        times(Mul(Sub(Sub(this.x, Mul(signX, Add(this.rX, pX))), origin.x), scaleX),
              Mul(Sub(Sub(this.y, Mul(signY, Add(this.rY, pY))), origin.y), scaleY),
              Mul(Sub(Add(this.x, Mul(signX, Add(this.rX, pX))), origin.x), scaleX),
              Mul(Sub(Add(this.y, Mul(signY, Add(this.rY, pY))), origin.y), scaleY),
              signX, signY)
      signs(scaleX, scaleY) == slabs(scaleX, scaleY, Sign(scaleX), Sign(scaleY))
  IN  \* scaleX = 1.0 / vector.x, scaleY = 1.0 / vector.y
      signs(Div(One, vector.x), Div(One, vector.y))

\* the tail of both swept tests of AABBCollider: hit.delta += vector
AddVectorToDelta(hit, vector) ==
  IF IsHit(hit)
    THEN [hit EXCEPT !.delta = Vec(Add(hit.delta.x, vector.x),
                                   Add(hit.delta.y, vector.y))]
    ELSE hit

\* AABBCollider.sweptBoxIntersection; with a zero vector it calls
\* this.intersection(box): the box is bound to x, and y, rX, rY are not passed
AABB_sweptBoxIntersection(this, box, vector) ==
  IF Eq(vector.x, Zero) /\ Eq(vector.y, Zero)
    THEN AABB_intersection(this, ObjectRef, Undefined, Undefined, Undefined)
    ELSE AddVectorToDelta(
           AABB_vectorIntersection(this, box, vector, box.rX, box.rY), vector)

\* AABBCollider.sweptCircleIntersection
AABB_sweptCircleIntersection(this, circle, vector) ==
  IF Eq(vector.x, Zero) /\ Eq(vector.y, Zero)
    THEN AABB_circleIntersection(this, circle)
    ELSE AddVectorToDelta(
           AABB_vectorIntersection(this, circle, vector, circle.radius, circle.radius),
           vector)

-----------------------------------------------------------------------------
(* colliders2d.mjs: CircleCollider against a box, a vector, a moving circle *)

\* CircleCollider.boxIntersection, the point of the box closest to the circle
closestPoint(this, box) ==
  LET clamped(d) == Vec(Add(box.x, Clamp(d.x, Neg(box.rX), box.rX)),
                        Add(box.y, Clamp(d.y, Neg(box.rY), box.rY)))
  IN  clamped(Vec(Sub(this.x, box.x), Sub(this.y, box.y)))

\* CircleCollider.boxIntersection, the edge condition: the hit's position
\* pushed by the box's width and height against the hit's normal
pushedPoint(box, hit) ==
  Vec(Sub(hit.pos.x, Mul(Mul(box.rX, Num(2)), hit.normal.x)),
      Sub(hit.pos.y, Mul(Mul(box.rY, Num(2)), hit.normal.y)))

\* CircleCollider.boxIntersection, the edge condition: the delta shifted to
\* the other side of the box
shiftedDelta(box, hit) ==
  [hit EXCEPT !.delta = Vec(Add(hit.delta.x, Mul(Mul(box.rX, Num(2)), hit.normal.x)),
                            Add(hit.delta.y, Mul(Mul(box.rY, Num(2)), hit.normal.y)))]

\* CircleCollider.boxIntersection
Circle_boxIntersection(this, box) ==
  LET \* hit.delta is read: a TypeError when the test returned null
      shifted(hit) == IF IsHit(hit) THEN shiftedDelta(box, hit) ELSE TypeError
      retest(cP) == shifted(Circle_intersection(this, cP.x, cP.y, Zero))
      \* hit.pos is read: a TypeError when the box's test returned null
      pushed(hit) == IF IsHit(hit) THEN retest(pushedPoint(box, hit)) ELSE TypeError
      test(cP) ==
        IF Eq(cP.x, this.x) /\ Eq(cP.y, this.y)
          THEN pushed(AABB_intersection(box, cP.x, cP.y, One, One))
          ELSE Circle_intersection(this, cP.x, cP.y, Zero)
  IN  test(closestPoint(this, box))

\* the square root CircleCollider.boxIntersection takes is one the model has
Circle_boxIntersection_exact(this, box) ==
  LET retest(cP) == Circle_intersection_exact(this, cP.x, cP.y, Zero)
      pushed(hit) == IsHit(hit) => retest(pushedPoint(box, hit))
      test(cP) ==
        IF Eq(cP.x, this.x) /\ Eq(cP.y, this.y)
          THEN pushed(AABB_intersection(box, cP.x, cP.y, One, One))
          ELSE retest(cP)
  IN  test(closestPoint(this, box))

\* CircleCollider.vectorIntersection
Circle_vectorIntersection(this, origin, vector, padding) ==
  LET \* n = (f - this) / (this._radius + padding); the returned hit
      result(f, rP) ==
        Hit(Vec(Sub(f.x, origin.x), Sub(f.y, origin.y)),
            Vec(Div(Sub(f.x, this.x), rP), Div(Sub(f.y, this.y), rP)),
            Vec(f.x, f.y))
      \* if (p2.x*p2.x + p2.y*p2.y > r2) return null
      within(f, p2, r2, rP) ==
        IF Gt(Add(Mul(p2.x, p2.x), Mul(p2.y, p2.y)), r2) THEN Null
        ELSE result(f, rP)
      \* f = (t - dt) * vU + origin, p2 = (origin + vector) - this
      near(vU, t, dt, r2, rP) ==
        within(Vec(Add(Mul(Sub(t, dt), vU.x), origin.x),
                   Add(Mul(Sub(t, dt), vU.y), origin.y)),
               Vec(Sub(Add(origin.x, vector.x), this.x),
                   Sub(Add(origin.y, vector.y), this.y)),
               r2, rP)
      \* if (eM2 < r2): dt = Math.sqrt(r2 - eM2)
      test(vU, t, eM2, r2, rP) ==
        IF Lt(eM2, r2) THEN near(vU, t, Sqrt(Sub(r2, eM2)), r2, rP) ELSE Null
      \* eM2 = |e - this|^2, r2 = (this._radius + padding)^2
      closest(vU, t, e, rP) ==
        test(vU, t,
             Add(Mul(Sub(e.x, this.x), Sub(e.x, this.x)),
                 Mul(Sub(e.y, this.y), Sub(e.y, this.y))),
             Mul(rP, rP), rP)
      \* e = t * vU + origin
      project(vU, t) ==
        closest(vU, t,
                Vec(Add(Mul(t, vU.x), origin.x), Add(Mul(t, vU.y), origin.y)),
                Add(this.radius, padding))
      \* t = vU . (this - origin)
      unit(vU) ==
        project(vU, Add(Mul(vU.x, Sub(this.x, origin.x)),
                        Mul(vU.y, Sub(this.y, origin.y))))
      \* vU = vector / vM
      scaled(vM) == unit(Vec(Div(vector.x, vM), Div(vector.y, vM)))
  IN  \* vM = vector.magnitude
      scaled(magnitude(vector))

\* the square roots CircleCollider.vectorIntersection takes are ones the
\* model has
Circle_vectorIntersection_exact(this, origin, vector, padding) ==
  LET test(eM2, r2) == Lt(eM2, r2) => HasSqrt(Sub(r2, eM2))
      closest(e, rP) ==
        test(Add(Mul(Sub(e.x, this.x), Sub(e.x, this.x)),
                 Mul(Sub(e.y, this.y), Sub(e.y, this.y))),
             Mul(rP, rP))
      project(vU, t) ==
        closest(Vec(Add(Mul(t, vU.x), origin.x), Add(Mul(t, vU.y), origin.y)),
                Add(this.radius, padding))
      unit(vU) ==
        project(vU, Add(Mul(vU.x, Sub(this.x, origin.x)),
                        Mul(vU.y, Sub(this.y, origin.y))))
      scaled(vM) == unit(Vec(Div(vector.x, vM), Div(vector.y, vM)))
      squared(m2) == HasSqrt(m2) /\ scaled(Sqrt(m2))
  IN  squared(Add(Mul(vector.x, vector.x), Mul(vector.y, vector.y)))

\* a variant of sweptCircleIntersection that leaves hit.pos where
\* vectorIntersection put it
Circle_sweptCircleIntersection_unretracted(this, circle, vector) ==
  Circle_vectorIntersection(this, circle, vector, circle.radius)

\* CircleCollider.sweptCircleIntersection
Circle_sweptCircleIntersection(this, circle, vector) ==
  LET \* hit.pos -= hit.normal * circle._radius
      retracted(hit) ==
        IF IsHit(hit)
          THEN [hit EXCEPT !.pos = Vec(Sub(hit.pos.x, Mul(hit.normal.x, circle.radius)),
                                       Sub(hit.pos.y, Mul(hit.normal.y, circle.radius)))]
          ELSE hit
  IN  retracted(Circle_vectorIntersection(this, circle, vector, circle.radius))

-----------------------------------------------------------------------------
(* The map collaborator.  A map is the set of its blocking cells; every    *)
(* other cell holds a tile that does not block.  A tile is known by the    *)
(* cell it was asked for.                                                  *)

\* map.getTile(x, y)
getTile(map, x, y) == [x |-> x, y |-> y, blocking |-> <<x, y>> \in map]

-----------------------------------------------------------------------------
(* camera2d.mjs: Ray2D *)

\* a variant of the constructor that builds both fields from vector
Ray2D_fromVector(origin, vector) ==
  [origin |-> Vec(vector.x, vector.y), vector |-> Vec(vector.x, vector.y)]

\* new Ray2D(origin, vector): both fields are built from origin
Ray2D(origin, vector) ==
  [origin |-> Vec(origin.x, origin.y), vector |-> Vec(origin.x, origin.y)]

\* a % 1
Rem1(a) ==
  IF IsFinite(a) THEN Norm(ISgn(a[1]) * (IAbs(a[1]) % a[2]), a[2]) ELSE NaN

\* a variant of calcDistance with the sign of the step slipped: the far
\* face of the cell in place of the near one
calcDistance_farFace(pos, origin, step, vector) ==
  Div(Add(Sub(pos, origin), Div(Add(One, step), Num(2))), vector)

\* a variant of calcDistance that measures to the middle of the cell,
\* whatever the step
calcDistance_midCell(pos, origin, step, vector) ==
  Div(Add(Sub(pos, origin), Div(One, Num(2))), vector)

\* Ray2D.cast, calcDistance
calcDistance(pos, origin, step, vector) ==
  Div(Add(Sub(pos, origin), Div(Sub(One, step), Num(2))), vector)

\* Ray2D.cast, calcOffset
calcOffset(pos, origin, distance, vector) ==
  Add(Add(pos, Rem1(origin)), Mul(distance, vector))

\* what Ray2D.cast returns: a hit descriptor or -1
RayHit(tile, offset, axis, distance) ==
  [kind |-> "hit", tile |-> tile, offset |-> offset, axis |-> axis,
   distance |-> distance]
NoHit == [kind |-> "nohit"]

\* Ray2D.cast, the initial setup: the locals as the loop starts
castSetup(origin, vector) ==
  LET stepX(mapPosX, rayDeltaX) ==
        IF Lt(vector.x, Zero)
          THEN [rayStepX |-> Num(-1),
                stepDistX |-> Mul(Sub(origin.x, mapPosX), rayDeltaX)]
          ELSE [rayStepX |-> One,
                stepDistX |-> Mul(Sub(Add(mapPosX, One), origin.x), rayDeltaX)]
      stepY(mapPosY, rayDeltaY) ==
        IF Lt(vector.y, Zero)
          THEN [rayStepY |-> Num(-1),
                stepDistY |-> Mul(Sub(origin.y, mapPosY), rayDeltaY)]
          ELSE [rayStepY |-> One,
                stepDistY |-> Mul(Sub(Add(mapPosY, One), origin.y), rayDeltaY)]
      locals(mapPosX, mapPosY, rayDeltaX, rayDeltaY, sX, sY) ==
        [mapPosX |-> mapPosX, mapPosY |-> mapPosY,
         rayDeltaX |-> rayDeltaX, rayDeltaY |-> rayDeltaY,
         rayStepX |-> sX.rayStepX, rayStepY |-> sY.rayStepY,
         stepDistX |-> sX.stepDistX, stepDistY |-> sY.stepDistY]
      steps(mapPosX, mapPosY, rayDeltaX, rayDeltaY) ==
        locals(mapPosX, mapPosY, rayDeltaX, rayDeltaY,
               stepX(mapPosX, rayDeltaX), stepY(mapPosY, rayDeltaY))
  IN  steps(Floor(origin.x), Floor(origin.y),
            Abs(Div(One, vector.x)), Abs(Div(One, vector.y)))

\* a variant of the loop condition that runs one iteration more (<=)
castContinues_inclusive(i, range) == i <= range

\* Ray2D.cast, the loop condition
castContinues(i, range) == i < range

\* a variant of the choice of the axis that steps along x on a tie (<=)
stepsAlongX_inclusive(l) == Le(l.stepDistX, l.stepDistY)

\* Ray2D.cast, the choice of the axis: if (stepDistX < stepDistY)
stepsAlongX(l) == Lt(l.stepDistX, l.stepDistY)

\* Ray2D.cast, one iteration of the loop on the locals l: the locals after
\* it, the tile it asked the map for, and the hit it returns if that tile
\* blocks
castStep(l, map, origin, vector) ==
  LET hitX(tile, distance) ==
        RayHit(tile, calcOffset(l.mapPosY, origin.y, distance, vector.y), "x", distance)
      hitY(tile, distance) ==
        RayHit(tile, calcOffset(l.mapPosX, origin.x, distance, vector.x), "y", distance)
      askedX(locals, tile) ==
        [locals |-> locals, tile |-> tile,
         ret |-> IF tile.blocking
                   THEN <<hitX(tile, calcDistance(locals.mapPosX, origin.x,
                                                  locals.rayStepX, vector.x))>>
                   ELSE <<>>]
      askedY(locals, tile) ==
        [locals |-> locals, tile |-> tile,
         ret |-> IF tile.blocking
                   THEN <<hitY(tile, calcDistance(locals.mapPosY, origin.y,
                                                  locals.rayStepY, vector.y))>>
                   ELSE <<>>]
      movedX(locals) == askedX(locals, getTile(map, locals.mapPosX, locals.mapPosY))
      movedY(locals) == askedY(locals, getTile(map, locals.mapPosX, locals.mapPosY))
  IN  IF stepsAlongX(l)
        THEN movedX([l EXCEPT !.stepDistX = Add(l.stepDistX, l.rayDeltaX),
                              !.mapPosX = Add(l.mapPosX, l.rayStepX)])
        ELSE movedY([l EXCEPT !.stepDistY = Add(l.stepDistY, l.rayDeltaY),
                              !.mapPosY = Add(l.mapPosY, l.rayStepY)])

\* Ray2D.cast, the loop from iteration i on with locals l
RECURSIVE castLoop(_, _, _, _, _, _)
castLoop(i, l, map, range, origin, vector) ==
  LET after(step) ==
        IF step.ret # <<>> THEN step.ret[1]
        ELSE castLoop(i + 1, step.locals, map, range, origin, vector)
  IN  IF castContinues(i, range)
        THEN after(castStep(l, map, origin, vector))
        ELSE NoHit

\* Ray2D.cast
Ray2D_cast(this, map, range) ==
  castLoop(0, castSetup(this.origin, this.vector), map, range,
           this.origin, this.vector)

-----------------------------------------------------------------------------
(* camera2d.mjs: RayCamera2D *)

\* an array slot nothing was stored in
Empty == [kind |-> "empty"]

\* new RayCamera2D(position, direction, columns, fov, range)
RayCamera2D(position, direction, columns, fov, range) ==
  [position  |-> Vec(position.x, position.y),
   direction |-> Vec(direction.x, direction.y),
   fov       |-> fov,
   range     |-> range,
   scene     |-> [column \in 0..(columns - 1) |-> Empty]]

\* the length of an array held as a function on 0..(length - 1)
Length(array) == Cardinality(DOMAIN array)

\* a variant of the offset of a column that leaves out the - 1: no column
\* lies to the other side of the heading
columnOffset_oneSided(column, columns, halfFOV) ==
  Mul(Div(Num(column * 2), Num(columns - 1)), halfFOV)

\* RayCamera2D.rayCast, the offset of a column:
\* (((column << 1) / (columns - 1)) - 1) * halfFOV
columnOffset(column, columns, halfFOV) ==
  Mul(Sub(Div(Num(column * 2), Num(columns - 1)), One), halfFOV)

\* RayCamera2D.rayCast, the ray vector of a column
columnVector(dirX, dirY, offset) ==
  Vec(Sub(dirX, Mul(offset, dirY)), Sub(dirY, Mul(offset, Neg(dirX))))

-----------------------------------------------------------------------------
(* The state *)

VARIABLES
  self,   \* the collider a query is called on (this): a circle or a box
  call,   \* the last query: its name and its arguments as they are after it
  ret,    \* what the last query returned
  ray,    \* a Ray2D: its _origin and its _vector
  cast,   \* the activation of Ray2D.cast: its locals, the getTile calls so
          \* far and what it returned
  cam,    \* a RayCamera2D: _position, _direction, _fov, _range, _scene
  fan     \* the activation of RayCamera2D.rayCast: its locals and the
          \* vector of each cast so far

vars == <<self, call, ret, ray, cast, cam, fan>>

\* the parts of the state a specification does not use stay as they are here
NoCollider == [kind |-> "none"]
NoCall     == [op |-> "none"]
NoRay      == [kind |-> "none"]
NoCast     == [pc |-> "idle"]
NoCamera   == [kind |-> "none"]
NoFan      == [pc |-> "idle"]

-----------------------------------------------------------------------------
(* The inputs of the collider queries *)

Coords     == {Num(i) : i \in -MaxCoord..MaxCoord}
Radii      == {Num(i) : i \in 0..MaxRadius}
\* the collider the query is called on, the vectors and the paddings come
\* from fixed sets
SelfCoords == {Zero, One}
SelfRadii  == {Zero, One, Num(2)}
VecCoords  == {Num(-1), Zero, One, Num(2)}
Paddings   == {Zero, One}

Points  == [x : Coords, y : Coords]
Vectors == [x : VecCoords, y : VecCoords]
\* coordinates of centres that lie off the axes of the queried circle at a
\* rational distance from its centre (3/5, 4/5 and 1 + 3/5, 1 + 4/5)
ObliqueCoords == {Norm(3, 5), Norm(4, 5), Norm(8, 5), Norm(9, 5)}
\* vectors long enough to cross a whole circle
LongVectors == {Vec(Num(3), Zero), Vec(Num(4), Zero), Vec(Zero, Num(-4))}
Circles == [x : Coords, y : Coords, radius : Radii]
Boxes   == [x : Coords, y : Coords, rX : Radii, rY : Radii]

\* new CircleCollider(x, y, radius)
CircleCollider(x, y, radius) == [kind |-> "circle", x |-> x, y |-> y, radius |-> radius]
\* new AABBCollider(x, y, rX, rY)
AABBCollider(x, y, rX, rY) == [kind |-> "box", x |-> x, y |-> y, rX |-> rX, rY |-> rY]

InitColliders ==
  /\ \/ \E x \in SelfCoords, y \in SelfCoords, radius \in SelfRadii :
          self = CircleCollider(x, y, radius)
     \/ \E x \in SelfCoords, y \in SelfCoords, rX \in SelfRadii, rY \in SelfRadii :
          self = AABBCollider(x, y, rX, rY)
  /\ call = NoCall
  /\ ret = Null
  /\ ray = NoRay
  /\ cast = NoCast
  /\ cam = NoCamera
  /\ fan = NoFan

-----------------------------------------------------------------------------
(* The queries of CircleCollider.  A behaviour constructs one collider and  *)
(* asks it one query, with arguments drawn from the sets above.            *)

CircleCollision ==
  /\ call = NoCall
  /\ self.kind = "circle"
  /\ \E circle \in Circles :
       /\ call' = [op |-> "collision", circle |-> circle]
       /\ ret' = Bool(Circle_collision(self, circle))
  /\ UNCHANGED <<self, ray, cast, cam, fan>>

CircleIntersection ==
  /\ call = NoCall
  /\ self.kind = "circle"
  /\ \E x \in Coords \cup ObliqueCoords, y \in Coords \cup ObliqueCoords,
        radius \in Radii :
       /\ Circle_intersection_exact(self, x, y, radius)
       /\ call' = [op |-> "intersection", x |-> x, y |-> y, radius |-> radius]
       /\ ret' = Circle_intersection(self, x, y, radius)
  /\ UNCHANGED <<self, ray, cast, cam, fan>>

CirclePointIntersection ==
  /\ call = NoCall
  /\ self.kind = "circle"
  /\ \E point \in Points :
       /\ Circle_intersection_exact(self, point.x, point.y, Zero)
       /\ call' = [op |-> "pointIntersection", point |-> point]
       /\ ret' = Circle_pointIntersection(self, point)
  /\ UNCHANGED <<self, ray, cast, cam, fan>>

CircleCircleIntersection ==
  /\ call = NoCall
  /\ self.kind = "circle"
  /\ \E circle \in Circles :
       /\ Circle_intersection_exact(self, circle.x, circle.y, circle.radius)
       /\ call' = [op |-> "circleIntersection", circle |-> circle]
       /\ ret' = Circle_circleIntersection(self, circle)
  /\ UNCHANGED <<self, ray, cast, cam, fan>>

CircleBoxIntersection ==
  /\ call = NoCall
  /\ self.kind = "circle"
  /\ \E box \in Boxes :
       /\ Circle_boxIntersection_exact(self, box)
       /\ call' = [op |-> "boxIntersection", box |-> box]
       /\ ret' = Circle_boxIntersection(self, box)
  /\ UNCHANGED <<self, ray, cast, cam, fan>>

CircleVectorIntersection ==
  /\ call = NoCall
  /\ self.kind = "circle"
  /\ \E origin \in Points, vector \in Vectors \cup LongVectors, padding \in Paddings :
       /\ Circle_vectorIntersection_exact(self, origin, vector, padding)
       /\ call' = [op |-> "vectorIntersection", origin |-> origin,
                   vector |-> vector, padding |-> padding]
       /\ ret' = Circle_vectorIntersection(self, origin, vector, padding)
  /\ UNCHANGED <<self, ray, cast, cam, fan>>

CircleSweptCircleIntersection ==
  /\ call = NoCall
  /\ self.kind = "circle"
  /\ \E circle \in Circles, vector \in Vectors :
       /\ Circle_vectorIntersection_exact(self, circle, vector, circle.radius)
       /\ call' = [op |-> "sweptCircleIntersection", circle |-> circle,
                   vector |-> vector]
       /\ ret' = Circle_sweptCircleIntersection(self, circle, vector)
  /\ UNCHANGED <<self, ray, cast, cam, fan>>

-----------------------------------------------------------------------------
(* The queries of AABBCollider *)

BoxIntersection ==
  /\ call = NoCall
  /\ self.kind = "box"
  /\ \E x \in Coords, y \in Coords, rX \in Radii, rY \in Radii :
       /\ call' = [op |-> "intersection", x |-> x, y |-> y, rX |-> rX, rY |-> rY]
       /\ ret' = AABB_intersection(self, x, y, rX, rY)
  /\ UNCHANGED <<self, ray, cast, cam, fan>>

BoxPointIntersection ==
  /\ call = NoCall
  /\ self.kind = "box"
  /\ \E point \in Points :
       /\ call' = [op |-> "pointIntersection", point |-> point]
       /\ ret' = AABB_pointIntersection(self, point)
  /\ UNCHANGED <<self, ray, cast, cam, fan>>

BoxBoxIntersection ==
  /\ call = NoCall
  /\ self.kind = "box"
  /\ \E box \in Boxes :
       /\ call' = [op |-> "boxIntersection", box |-> box]
       /\ ret' = AABB_boxIntersection(self, box)
  /\ UNCHANGED <<self, ray, cast, cam, fan>>

BoxCircleIntersection ==
  /\ call = NoCall
  /\ self.kind = "box"
  /\ \E circle \in Circles :
       /\ call' = [op |-> "circleIntersection", circle |-> circle]
       /\ ret' = AABB_circleIntersection(self, circle)
  /\ UNCHANGED <<self, ray, cast, cam, fan>>

BoxVectorIntersection ==
  /\ call = NoCall
  /\ self.kind = "box"
  /\ \E origin \in Points, vector \in Vectors, pX \in Paddings, pY \in Paddings :
       /\ call' = [op |-> "vectorIntersection", origin |-> origin,
                   vector |-> vector, pX |-> pX, pY |-> pY]
       /\ ret' = AABB_vectorIntersection(self, origin, vector, pX, pY)
  /\ UNCHANGED <<self, ray, cast, cam, fan>>

BoxSweptBoxIntersection ==
  /\ call = NoCall
  /\ self.kind = "box"
  /\ \E box \in Boxes, vector \in Vectors :
       /\ call' = [op |-> "sweptBoxIntersection", box |-> box, vector |-> vector]
       /\ ret' = AABB_sweptBoxIntersection(self, box, vector)
  /\ UNCHANGED <<self, ray, cast, cam, fan>>

BoxSweptCircleIntersection ==
  /\ call = NoCall
  /\ self.kind = "box"
  /\ \E circle \in Circles, vector \in Vectors :
       /\ call' = [op |-> "sweptCircleIntersection", circle |-> circle,
                   vector |-> vector]
       /\ ret' = AABB_sweptCircleIntersection(self, circle, vector)
  /\ UNCHANGED <<self, ray, cast, cam, fan>>

NextColliders ==
  \/ CircleCollision
  \/ CircleIntersection
  \/ CirclePointIntersection
  \/ CircleCircleIntersection
  \/ CircleBoxIntersection
  \/ CircleVectorIntersection
  \/ CircleSweptCircleIntersection
  \/ BoxIntersection
  \/ BoxPointIntersection
  \/ BoxBoxIntersection
  \/ BoxCircleIntersection
  \/ BoxVectorIntersection
  \/ BoxSweptBoxIntersection
  \/ BoxSweptCircleIntersection

-----------------------------------------------------------------------------
(* Ray2D: a ray is constructed, its vector is set through the getter       *)
(* (ray.vector.x = ..., as RayCamera2D.rayCast does), and it is cast       *)
(* through a map.  The cast is followed one loop iteration at a time.      *)

\* the largest column of the window the blocking cells of a map lie in
MaxCell == 3
\* the ranges of a cast are 0..MaxRange and the camera's default
MaxRange == 3
\* the default range of RayCamera2D
DefaultRange == 15

Half == Norm(1, 2)
RayOrigins ==
  { Vec(Half, Half), Vec(Zero, Zero), Vec(Norm(3, 2), Norm(1, 4)),
    Vec(Neg(Half), Half), Vec(Norm(5, 2), Norm(3, 2)) }
RayCoords == {Num(-1), Zero, One, Half}
Window == {<<Num(x), Num(y)>> : x \in 0..MaxCell, y \in 0..1}
Maps == {m \in SUBSET Window : Cardinality(m) <= 2}
Ranges == (0..MaxRange) \cup {DefaultRange}

InitRay ==
  /\ self = NoCollider
  /\ call = NoCall
  /\ ret = Null
  /\ \E origin \in RayOrigins, vector \in [x : RayCoords, y : RayCoords] :
       ray = Ray2D(origin, vector)
  /\ cast = NoCast
  /\ cam = NoCamera
  /\ fan = NoFan

\* ray.vector.x = val
SetVectorX ==
  /\ cast.pc = "idle"
  /\ \E val \in RayCoords : ray' = [ray EXCEPT !.vector.x = val]
  /\ UNCHANGED <<self, call, ret, cast, cam, fan>>

\* ray.vector.y = val
SetVectorY ==
  /\ cast.pc = "idle"
  /\ \E val \in RayCoords : ray' = [ray EXCEPT !.vector.y = val]
  /\ UNCHANGED <<self, call, ret, cast, cam, fan>>

\* ray.cast(map, range) is called: the initial setup
CastBegin ==
  /\ cast.pc = "idle"
  /\ \E map \in Maps, range \in Ranges :
       cast' = [pc |-> "loop", map |-> map, range |-> range, i |-> 0,
                locals |-> castSetup(ray.origin, ray.vector),
                calls |-> <<>>, ret |-> NoHit]
  /\ UNCHANGED <<self, call, ret, ray, cam, fan>>

\* a variant of the iteration that notes the hit and goes on looping
CastIterate_noReturn ==
  /\ cast.pc = "loop"
  /\ castContinues(cast.i, cast.range)
  /\ LET after(step) ==
           IF step.ret # <<>>
             THEN [cast EXCEPT !.i = @ + 1, !.locals = step.locals,
                               !.calls = Append(@, step.tile), !.ret = step.ret[1]]
             ELSE [cast EXCEPT !.i = @ + 1, !.locals = step.locals,
                               !.calls = Append(@, step.tile)]
     IN  cast' = after(castStep(cast.locals, cast.map, ray.origin, ray.vector))
  /\ UNCHANGED <<self, call, ret, ray, cam, fan>>

\* one iteration of the loop: step, ask the map, return a hit if the tile
\* blocks
CastIterate ==
  /\ cast.pc = "loop"
  /\ castContinues(cast.i, cast.range)
  /\ LET after(step) ==
           IF step.ret # <<>>
             THEN [cast EXCEPT !.pc = "done", !.locals = step.locals,
                               !.calls = Append(@, step.tile), !.ret = step.ret[1]]
             ELSE [cast EXCEPT !.i = @ + 1, !.locals = step.locals,
                               !.calls = Append(@, step.tile)]
     IN  cast' = after(castStep(cast.locals, cast.map, ray.origin, ray.vector))
  /\ UNCHANGED <<self, call, ret, ray, cam, fan>>

\* the loop ends without a hit: return -1
CastExhausted ==
  /\ cast.pc = "loop"
  /\ ~castContinues(cast.i, cast.range)
  /\ cast' = [cast EXCEPT !.pc = "done", !.ret = NoHit]
  /\ UNCHANGED <<self, call, ret, ray, cam, fan>>

NextRay ==
  \/ SetVectorX
  \/ SetVectorY
  \/ CastBegin
  \/ CastIterate
  \/ CastExhausted

SpecRay == InitRay /\ [][NextRay]_vars
\* the body of the for loop: an iteration or the exit
LoopStep == CastIterate \/ CastExhausted
\* a call that has begun runs on: cast is synchronous and nothing suspends
\* its loop.  This is weak fairness of LoopStep, WF_vars(LoopStep), with
\* its enabling condition written out: LoopStep is enabled exactly when
\* cast.pc = "loop" (the two guards on i are complementary) and every
\* step of it changes cast.
SpecRayFair ==
  SpecRay /\ ([]<>(cast.pc # "loop") \/ []<><<LoopStep>>_vars)

-----------------------------------------------------------------------------
(* RayCamera2D: a camera is constructed and rayCast(map) is called on it;  *)
(* the call is followed one column at a time.                              *)

\* the cameras have 0..MaxColumns columns
MaxColumns == 3

CamPositions  == {Vec(Half, Half), Vec(Norm(3, 2), Half)}
CamDirections == {Vec(One, Zero), Vec(Zero, One), Vec(Num(-1), Zero), Vec(Half, Half)}
CamFovs       == {One, Num(2), Half}
CamRanges     == {2, DefaultRange}

InitCamera ==
  /\ self = NoCollider
  /\ call = NoCall
  /\ ret = Null
  /\ ray = NoRay
  /\ cast = NoCast
  /\ \E position \in CamPositions, direction \in CamDirections,
        columns \in 0..MaxColumns, fov \in CamFovs, range \in CamRanges :
       cam = RayCamera2D(position, direction, columns, fov, range)
  /\ fan = NoFan

\* camera.rayCast(map) is called: the locals and the ray
RayCastBegin ==
  /\ fan.pc = "idle"
  /\ \E map \in Maps :
       fan' = [pc |-> "columns", map |-> map,
               halfFOV |-> Div(cam.fov, Num(2)),
               columns |-> Length(cam.scene),
               dirX |-> cam.direction.x, dirY |-> cam.direction.y,
               column |-> 0, vectors |-> <<>>]
  /\ ray' = Ray2D(cam.position, cam.direction)
  /\ UNCHANGED <<self, call, ret, cast, cam>>

\* one column: set the ray's vector, cast it, store the result
RayCastColumn ==
  /\ fan.pc = "columns"
  /\ fan.column < fan.columns
  /\ LET aimed(r) ==
           /\ ray' = r
           /\ cam' = [cam EXCEPT !.scene[fan.column] =
                                   Ray2D_cast(r, fan.map, cam.range)]
           /\ fan' = [fan EXCEPT !.column = @ + 1,
                                 !.vectors = Append(@, r.vector)]
     IN  aimed([ray EXCEPT !.vector =
                  columnVector(fan.dirX, fan.dirY,
                               columnOffset(fan.column, fan.columns, fan.halfFOV))])
  /\ UNCHANGED <<self, call, ret, cast>>

\* the loop over the columns ends
RayCastEnd ==
  /\ fan.pc = "columns"
  /\ ~(fan.column < fan.columns)
  /\ fan' = [fan EXCEPT !.pc = "done"]
  /\ UNCHANGED <<self, call, ret, ray, cast, cam>>

NextCamera ==
  \/ RayCastBegin
  \/ RayCastColumn
  \/ RayCastEnd

SpecCamera == InitCamera /\ [][NextCamera]_vars

-----------------------------------------------------------------------------
(* Vector2D: a vector is constructed and its magnitude is set or it is     *)
(* normalized, any number of times, or it is rotated by vectors up to      *)
(* MaxRotations times.  The vector is self; call records the last          *)
(* operation, with the vector as it was before it; a rotation also records *)
(* the rotation before it.                                                 *)

\* new Vector2D(x, y)
Vector2D(x, y) == [kind |-> "vector", x |-> x, y |-> y]
\* what a call without a return value leaves as its result
NoValue == [kind |-> "undefined"]
\* the square root Vector2D.magnitude takes is one the model has
magnitude_exact(this) == HasSqrt(Add(Mul(this.x, this.x), Mul(this.y, this.y)))

VectorCoords == {Num(i) : i \in -MaxCoord..MaxCoord}
Magnitudes   == {Zero, One, Num(2), Num(3), Num(-1), Half}

\* the vectors to rotate by: unit vectors on and off the axes, and vectors
\* of other lengths, the zero vector among them
Bases ==
  { Vec(One, Zero), Vec(Zero, One), Vec(Num(-1), Zero),
    Vec(Norm(3, 5), Norm(4, 5)), Vec(Norm(-4, 5), Norm(3, 5)),
    Vec(One, One), Vec(Num(2), Zero), Vec(Zero, Zero), Vec(Half, Num(-1)) }
\* the names of the two rotations
Rotations == {"rotateByVector", "unrotateByVector"}
\* the number of rotations in a row, the last operation included
RotationCount == IF call.op \in Rotations THEN call.count ELSE 0
\* the record of the last operation, without the one before it
LastCall ==
  IF call.op \in Rotations
    THEN [op |-> call.op, before |-> call.before, vector |-> call.vector]
    ELSE [op |-> call.op]

InitVector ==
  /\ \E x \in VectorCoords, y \in VectorCoords : self = Vector2D(x, y)
  /\ call = NoCall
  /\ ret = Null
  /\ ray = NoRay
  /\ cast = NoCast
  /\ cam = NoCamera
  /\ fan = NoFan

\* vector.normalize()
VectorNormalize ==
  /\ self.kind = "vector"
  /\ magnitude_exact(self)
  /\ self' = normalize(self)
  /\ call' = [op |-> "normalize", before |-> self]
  /\ ret' = NoValue
  /\ UNCHANGED <<ray, cast, cam, fan>>

\* vector.magnitude = val
VectorSetMagnitude ==
  /\ self.kind = "vector"
  /\ magnitude_exact(self)
  /\ \E val \in Magnitudes :
       /\ self' = magnitude_set(self, val)
       /\ call' = [op |-> "magnitude=", before |-> self, val |-> val]
  /\ ret' = NoValue
  /\ UNCHANGED <<ray, cast, cam, fan>>

\* vector.rotateByVector(basis)
VectorRotateByVector ==
  /\ self.kind = "vector"
  /\ call.op \in Rotations \cup {"none"}
  /\ RotationCount < MaxRotations
  /\ \E basis \in Bases :
       /\ self' = rotateByVector(self, basis)
       /\ call' = [op |-> "rotateByVector", before |-> self, vector |-> basis,
                   count |-> RotationCount + 1, prev |-> LastCall]
  /\ ret' = NoValue
  /\ UNCHANGED <<ray, cast, cam, fan>>

\* vector.unrotateByVector(basis)
VectorUnrotateByVector ==
  /\ self.kind = "vector"
  /\ call.op \in Rotations \cup {"none"}
  /\ RotationCount < MaxRotations
  /\ \E basis \in Bases :
       /\ self' = unrotateByVector(self, basis)
       /\ call' = [op |-> "unrotateByVector", before |-> self, vector |-> basis,
                   count |-> RotationCount + 1, prev |-> LastCall]
  /\ ret' = NoValue
  /\ UNCHANGED <<ray, cast, cam, fan>>

NextVector ==
  \/ VectorNormalize
  \/ VectorSetMagnitude
  \/ VectorRotateByVector
  \/ VectorUnrotateByVector

SpecVector == InitVector /\ [][NextVector]_vars

Init == InitColliders
Next == NextColliders
Spec == Init /\ [][Next]_vars

-----------------------------------------------------------------------------
(* Properties of the collider queries.  The arguments of a query in the    *)
(* collider specification are integers; the properties restate the         *)
(* geometry in integer arithmetic, apart from the operators above.         *)

\* the integer a finite whole number stands for
IntOf(a) == a[1]
FiniteVec(v) == IsFinite(v.x) /\ IsFinite(v.y)

OnCircle(op) == self.kind = "circle" /\ call.op = op
OnBox(op)    == self.kind = "box" /\ call.op = op

\* the squared distance between the centres of two colliders
CentreDist2(a, b) ==
  (IntOf(b.x) - IntOf(a.x)) * (IntOf(b.x) - IntOf(a.x))
    + (IntOf(b.y) - IntOf(a.y)) * (IntOf(b.y) - IntOf(a.y))
RadiusSum(a, b) == IntOf(a.radius) + IntOf(b.radius)

\* C1: CircleCollider.collision is true exactly when the squared distance
\* between the centres is strictly less than the square of the sum of the
\* radii; circles that exactly touch are not in collision; and
\* A.collision(B) equals B.collision(A).
C1_CollisionStrict ==
  OnCircle("collision") =>
    /\ ret.value = (CentreDist2(self, call.circle)
                      < RadiusSum(self, call.circle) * RadiusSum(self, call.circle))
    /\ (CentreDist2(self, call.circle)
          = RadiusSum(self, call.circle) * RadiusSum(self, call.circle)
        => ret.value = FALSE)
    /\ ret.value = Circle_collision(call.circle, self)

\* two circles of positive radius at distance exactly the sum of the radii
\* were tested and found not to collide
C1_Witness ==
  /\ OnCircle("collision")
  /\ IntOf(self.radius) > 0
  /\ IntOf(call.circle.radius) > 0
  /\ CentreDist2(self, call.circle)
       = RadiusSum(self, call.circle) * RadiusSum(self, call.circle)
  /\ ret.value = FALSE

\* the penetration depths of box b into box a on the two axes
PenetrationX(a, b) == (IntOf(a.rX) + IntOf(b.rX)) - IAbs(IntOf(b.x) - IntOf(a.x))
PenetrationY(a, b) == (IntOf(a.rY) + IntOf(b.rY)) - IAbs(IntOf(b.y) - IntOf(a.y))
\* the open intervals the boxes cover on an axis are disjoint
SeparatedX(a, b) ==
  \/ IntOf(a.x) + IntOf(a.rX) <= IntOf(b.x) - IntOf(b.rX)
  \/ IntOf(b.x) + IntOf(b.rX) <= IntOf(a.x) - IntOf(a.rX)
SeparatedY(a, b) ==
  \/ IntOf(a.y) + IntOf(a.rY) <= IntOf(b.y) - IntOf(b.rY)
  \/ IntOf(b.y) + IntOf(b.rY) <= IntOf(a.y) - IntOf(a.rY)

\* C2: A.boxIntersection(B) is null if and only if the projections of the
\* boxes fail to overlap on at least one axis, that is, a penetration depth
\* is <= 0; boxes that only touch along an edge do not overlap.
C2_NullIffSeparated ==
  OnBox("boxIntersection") =>
    /\ (ret = Null) <=> (PenetrationX(self, call.box) <= 0 \/ PenetrationY(self, call.box) <= 0)
    /\ (ret = Null) <=> (SeparatedX(self, call.box) \/ SeparatedY(self, call.box))

\* two boxes of positive extent that touch along an edge (depth 0 on x,
\* positive on y) were tested and the result was null
C2_Witness ==
  /\ OnBox("boxIntersection")
  /\ IntOf(self.rX) > 0 /\ IntOf(call.box.rX) > 0
  /\ PenetrationX(self, call.box) = 0
  /\ PenetrationY(self, call.box) > 0
  /\ ret = Null

\* a collider moved by a vector
Translate(c, v) == [c EXCEPT !.x = Add(c.x, v.x), !.y = Add(c.y, v.y)]

\* C3: for every pair of overlapping boxes A and B, B's centre translated by
\* the delta of A.boxIntersection(B) no longer overlaps A: the test of the
\* translated box returns null.
C3_DeltaResolves ==
  (OnBox("boxIntersection") /\ IsHit(ret)) =>
    AABB_boxIntersection(self, Translate(call.box, ret.delta)) = Null

\* C4: A.sweptBoxIntersection(B, vector) with vector (0,0) returns what the
\* static test A.boxIntersection(B) returns.
C4_SweptZeroIsStatic ==
  (OnBox("sweptBoxIntersection") /\ call.vector = Vec(Zero, Zero)) =>
    ret = AABB_boxIntersection(self, call.box)

\* C5: S.sweptCircleIntersection(M, vector) with vector (0,0) is null exactly
\* when S.circleIntersection(M) is null, and otherwise has the same pos and
\* normal, all components finite.  Stated for circles of positive radius.
C5_SweptZeroIsStatic ==
  ( /\ OnCircle("sweptCircleIntersection")
    /\ call.vector = Vec(Zero, Zero)
    /\ Gt(self.radius, Zero)
    /\ Gt(call.circle.radius, Zero)
    /\ Circle_intersection_exact(self, call.circle.x, call.circle.y, call.circle.radius) ) =>
    LET static == Circle_circleIntersection(self, call.circle)
    IN  /\ (ret = Null) <=> (static = Null)
        /\ IsHit(ret) =>
             /\ ret.pos = static.pos
             /\ ret.normal = static.normal
             /\ FiniteVec(ret.pos) /\ FiniteVec(ret.normal) /\ FiniteVec(ret.delta)

\* C9: for a circle whose centre coincides with the box centre,
\* CircleCollider.boxIntersection returns a hit whose delta is finite and
\* whose magnitude is the box half-extent along the normal axis plus the
\* circle radius.  Stated for a circle of positive radius and a box of
\* positive half-extents (with radius 0 the call throws a TypeError
\* instead).
C9_ConcentricBoxFinite ==
  ( /\ OnCircle("boxIntersection")
    /\ call.box.x = self.x
    /\ call.box.y = self.y
    /\ Gt(self.radius, Zero)
    /\ Gt(call.box.rX, Zero)
    /\ Gt(call.box.rY, Zero) ) =>
    /\ IsHit(ret)
    /\ FiniteVec(ret.delta)
    /\ \/ /\ Abs(ret.normal.x) = One
          /\ ret.normal.y = Zero
          /\ Abs(ret.delta.x) = Add(call.box.rX, self.radius)
          /\ ret.delta.y = Zero
       \/ /\ ret.normal.x = Zero
          /\ Abs(ret.normal.y) = One
          /\ ret.delta.x = Zero
          /\ Abs(ret.delta.y) = Add(call.box.rY, self.radius)

\* C10: CircleCollider.intersection(x, y, radius) with (x, y) the circle's own
\* centre and a positive combined radius returns a hit whose normal is a
\* finite unit vector and whose delta and pos are finite.
C10_ConcentricFinite ==
  ( /\ OnCircle("intersection")
    /\ call.x = self.x
    /\ call.y = self.y
    /\ Gt(Add(self.radius, call.radius), Zero) ) =>
    /\ IsHit(ret)
    /\ FiniteVec(ret.normal)
    /\ Add(Mul(ret.normal.x, ret.normal.x), Mul(ret.normal.y, ret.normal.y)) = One
    /\ FiniteVec(ret.delta)
    /\ FiniteVec(ret.pos)

-----------------------------------------------------------------------------
(* Properties of Ray2D.cast *)

\* C6: Ray2D.cast always terminates: for any origin, any direction vector
\* (a zero component included) and any map it calls map.getTile at most
\* range times, and on a map where no tile blocks it calls getTile exactly
\* range times and then returns the no-hit sentinel -1.
C6_CastTerminates ==
  /\ [](cast.pc \in {"loop", "done"} => Len(cast.calls) <= cast.range)
  /\ []((cast.pc = "done" /\ cast.map = {}) =>
          (Len(cast.calls) = cast.range /\ cast.ret = NoHit))
  /\ (cast.pc = "loop") ~> (cast.pc = "done")

\* a ray with a zero vector component went through an empty map with the
\* default range: 15 getTile calls, then -1
C6_Witness ==
  /\ cast.pc = "done"
  /\ cast.map = {}
  /\ cast.range = DefaultRange
  /\ ray.vector.y = Zero
  /\ Len(cast.calls) = DefaultRange
  /\ cast.ret = NoHit

\* the blocking cells of the ray's row that lie beyond the ray's column
RowCells ==
  {c \in cast.map : c[2] = Floor(ray.origin.y) /\ Gt(c[1], Floor(ray.origin.x))}
\* the nearest of them
NearestRowCell == CHOOSE c \in RowCells : \A d \in RowCells : Le(c[1], d[1])

\* C7: a ray with direction (1,0) cast over a map whose nearest blocking cell
\* in row floor(oy) is at column cx > floor(ox), with cx - floor(ox) <= range,
\* returns a hit whose tile is the tile of cell (cx, floor(oy)), whose axis is
\* 'x' and whose distance is cx - ox.
C7_RowHit ==
  ( /\ cast.pc = "done"
    /\ ray.vector = Vec(One, Zero)
    /\ RowCells # {}
    /\ Le(Sub(NearestRowCell[1], Floor(ray.origin.x)), Num(cast.range)) ) =>
    /\ cast.ret.kind = "hit"
    /\ cast.ret.tile = getTile(cast.map, NearestRowCell[1], Floor(ray.origin.y))
    /\ cast.ret.tile.blocking
    /\ cast.ret.axis = "x"
    /\ cast.ret.distance = Sub(NearestRowCell[1], ray.origin.x)

\* origin (0.5,0.5), direction (1,0), one blocking cell at (3,0), range 15:
\* axis 'x' and distance 2.5
C7_Witness ==
  /\ cast.pc = "done"
  /\ ray.origin = Vec(Half, Half)
  /\ ray.vector = Vec(One, Zero)
  /\ cast.map = {<<Num(3), Zero>>}
  /\ cast.range = DefaultRange
  /\ cast.ret.kind = "hit"
  /\ cast.ret.axis = "x"
  /\ cast.ret.distance = Norm(5, 2)

-----------------------------------------------------------------------------
(* Properties of RayCamera2D.rayCast *)

\* C8: a camera with exactly one column casts its single ray along exactly
\* the heading: after rayCast the vector used for column 0 equals the
\* camera's direction, for every field of view.
C8_SingleColumnHeading ==
  (fan.pc = "done" /\ fan.columns = 1) => fan.vectors[1] = cam.direction

-----------------------------------------------------------------------------
(* Properties of AABBCollider.vectorIntersection *)

\* the faces of the queried box grown by the padding of the call
PaddedLoX == Sub(self.x, Add(self.rX, call.pX))
PaddedHiX == Add(self.x, Add(self.rX, call.pX))
PaddedLoY == Sub(self.y, Add(self.rY, call.pY))
PaddedHiY == Add(self.y, Add(self.rY, call.pY))
\* the times at which the line origin + t * vector enters and leaves the
\* slab of an axis
EntryTimeX ==
  MathMin(Div(Sub(PaddedLoX, call.origin.x), call.vector.x),
          Div(Sub(PaddedHiX, call.origin.x), call.vector.x))
ExitTimeX ==
  MathMax(Div(Sub(PaddedLoX, call.origin.x), call.vector.x),
          Div(Sub(PaddedHiX, call.origin.x), call.vector.x))
EntryTimeY ==
  MathMin(Div(Sub(PaddedLoY, call.origin.y), call.vector.y),
          Div(Sub(PaddedHiY, call.origin.y), call.vector.y))
ExitTimeY ==
  MathMax(Div(Sub(PaddedLoY, call.origin.y), call.vector.y),
          Div(Sub(PaddedHiY, call.origin.y), call.vector.y))
\* the overall near time and the overall far time
OverallNearTime == MathMax(EntryTimeX, EntryTimeY)
OverallFarTime  == MathMin(ExitTimeX, ExitTimeY)

InsidePaddedAt(t) ==
  /\ Lt(PaddedLoX, Add(call.origin.x, Mul(t, call.vector.x)))
  /\ Lt(Add(call.origin.x, Mul(t, call.vector.x)), PaddedHiX)
  /\ Lt(PaddedLoY, Add(call.origin.y, Mul(t, call.vector.y)))
  /\ Lt(Add(call.origin.y, Mul(t, call.vector.y)), PaddedHiY)
\* the times in [0,1] at which the segment meets the line of a face, with
\* the two ends of the segment
FaceTimes ==
  {Zero, One}
    \cup {t \in (IF call.vector.x = Zero THEN {}
                 ELSE {Div(Sub(PaddedLoX, call.origin.x), call.vector.x),
                       Div(Sub(PaddedHiX, call.origin.x), call.vector.x)})
                \cup
                (IF call.vector.y = Zero THEN {}
                 ELSE {Div(Sub(PaddedLoY, call.origin.y), call.vector.y),
                       Div(Sub(PaddedHiY, call.origin.y), call.vector.y)}) :
            Le(Zero, t) /\ Le(t, One)}
\* the segment passes through the interior of the padded box: the interior
\* is open and convex, so it is met, if at all, at a face time or midway
\* between two of them
PassesThroughInterior ==
  \E a \in FaceTimes, b \in FaceTimes :
    InsidePaddedAt(Div(Add(a, b), Num(2)))

\* C12: for every origin, every non-zero vector (a zero component included)
\* and every padding, AABBCollider.vectorIntersection returns a hit if and
\* only if the segment from origin to origin + vector passes through the
\* interior of the box grown by the padding; otherwise it returns null.
\* Stated for a padded box with a non-empty interior.
C12_HitIffThroughInterior ==
  ( /\ OnBox("vectorIntersection")
    /\ call.vector # Vec(Zero, Zero)
    /\ Lt(PaddedLoX, PaddedHiX)
    /\ Lt(PaddedLoY, PaddedHiY) ) =>
    (IsHit(ret) <=> PassesThroughInterior)

-----------------------------------------------------------------------------
(* Properties of CircleCollider.vectorIntersection *)

\* the radius of the queried circle grown by the padding of the call
PaddedRadius == Add(self.radius, call.padding)
\* the length of the segment of the call and the point of its line at
\* distance s from the origin
SegmentLength == magnitude(call.vector)
PointAlong(s) ==
  Vec(Add(call.origin.x, Mul(s, Div(call.vector.x, SegmentLength))),
      Add(call.origin.y, Mul(s, Div(call.vector.y, SegmentLength))))
\* the squared distance of a point from the centre of the queried circle
Dist2FromCentre(p) ==
  Add(Mul(Sub(p.x, self.x), Sub(p.x, self.x)),
      Mul(Sub(p.y, self.y), Sub(p.y, self.y)))
OnBoundaryAlong(s) == Dist2FromCentre(PointAlong(s)) = Mul(PaddedRadius, PaddedRadius)
\* the distances along the line at which it can cross the padded circle:
\* the coordinates are integers and the line is parallel to an axis
Distances ==
  {Num(k) : k \in -(4 * MaxCoord + 2 * MaxRadius + 4)..(4 * MaxCoord + 2 * MaxRadius + 4)}
\* where the line enters the padded circle: the nearer of its two crossings
\* of the boundary, if it has two
NearCrossings ==
  {s \in Distances :
     /\ OnBoundaryAlong(s)
     /\ \E far \in Distances : Lt(s, far) /\ OnBoundaryAlong(far)}
\* the entry point lies within the segment
EntersWithinSegment ==
  \E s \in NearCrossings : Le(Zero, s) /\ Le(s, SegmentLength)

\* C13: CircleCollider.vectorIntersection returns a hit exactly when the
\* near boundary intersection of the line with the circle of radius
\* radius + padding lies within the segment from origin to origin + vector,
\* and null when the line misses the circle or that point lies beyond the
\* segment's end; a segment that starts outside, enters and ends beyond the
\* circle is reported as a hit at its entry point.
C13_HitIffEntryWithinSegment ==
  ( /\ OnCircle("vectorIntersection")
    /\ call.vector # Vec(Zero, Zero)
    /\ Gt(PaddedRadius, Zero) ) =>
    /\ IsHit(ret) <=> EntersWithinSegment
    /\ IsHit(ret) => \E s \in NearCrossings : ret.pos = PointAlong(s)

-----------------------------------------------------------------------------
(* Properties of CircleCollider.boxIntersection *)

\* the point of the box of the call closest to the centre of the queried
\* circle, and its squared distance from that centre
NearestOfBox ==
  Vec(MathMax(Sub(call.box.x, call.box.rX),
              MathMin(self.x, Add(call.box.x, call.box.rX))),
      MathMax(Sub(call.box.y, call.box.rY),
              MathMin(self.y, Add(call.box.y, call.box.rY))))
NearestDist2 ==
  Add(Mul(Sub(self.x, NearestOfBox.x), Sub(self.x, NearestOfBox.x)),
      Mul(Sub(self.y, NearestOfBox.y), Sub(self.y, NearestOfBox.y)))

\* C14: for every circle and every box, CircleCollider.boxIntersection
\* raises no exception and returns null if and only if the distance from
\* the circle's centre to the closest point of the box is >= the radius; for
\* a circle whose centre lies inside or on the box it returns a hit with a
\* finite delta.  Stated for a circle of positive radius, a box of positive
\* half-extents and centres that differ.
C14_BoxIntersectionTotal ==
  ( /\ OnCircle("boxIntersection")
    /\ Gt(self.radius, Zero)
    /\ Gt(call.box.rX, Zero)
    /\ Gt(call.box.rY, Zero)
    /\ ~(call.box.x = self.x /\ call.box.y = self.y) ) =>
    /\ ret # TypeError
    /\ (ret = Null) <=> Ge(NearestDist2, Mul(self.radius, self.radius))
    /\ NearestDist2 = Zero => (IsHit(ret) /\ FiniteVec(ret.delta))

-----------------------------------------------------------------------------
(* Properties of the scene buffer of RayCamera2D.rayCast *)

\* what casting a ray from the camera's position along the vector used for
\* a column returns
CastOfColumn(column) ==
  Ray2D_cast([origin |-> cam.position, vector |-> fan.vectors[column + 1]],
             fan.map, cam.range)
\* a step of rayCast keeps the length of the scene buffer and stores
\* nothing except into the slot of the current column, after which the next
\* column is the current one
ScenePreserved ==
  /\ DOMAIN cam'.scene = DOMAIN cam.scene
  /\ \A c \in DOMAIN cam.scene :
       cam'.scene[c] # cam.scene[c] =>
         /\ fan.pc = "columns"
         /\ c = fan.column
         /\ cam.scene[c] = Empty
         /\ fan'.column = c + 1

\* C15: after RayCamera2D.rayCast(map) on a camera with N columns the scene
\* buffer still has length N and every index 0..N-1 has been written exactly
\* once, in ascending column order, with the result of casting that column's
\* ray from the camera position (a hit descriptor, or the sentinel -1); all
\* columns are cast with one reused ray whose origin is the camera position.
C15_SceneFilledInOrder ==
  /\ [][ScenePreserved]_vars
  /\ [](fan.pc # "idle" =>
          /\ ray.origin = cam.position
          /\ fan.column <= Length(cam.scene)
          /\ \A c \in DOMAIN cam.scene :
               IF c < fan.column
                 THEN /\ cam.scene[c] = CastOfColumn(c)
                      /\ cam.scene[c].kind \in {"hit", "nohit"}
                 ELSE cam.scene[c] = Empty)
  /\ [](fan.pc = "done" => fan.column = Length(cam.scene))

\* rayCast has ended on a camera with the largest number of columns, some
\* of them with a hit and some without
C15_Witness ==
  /\ fan.pc = "done"
  /\ Length(cam.scene) = MaxColumns
  /\ \E c \in DOMAIN cam.scene : cam.scene[c].kind = "hit"
  /\ \E c \in DOMAIN cam.scene : cam.scene[c] = NoHit

-----------------------------------------------------------------------------
(* Properties of Vector2D *)

\* C16: setting Vector2D.magnitude on a vector whose magnitude is 0 raises
\* no error and leaves the vector with NaN components, for every requested
\* magnitude; no clamping or guard is applied.
C16_ZeroMagnitudeGivesNaN ==
  ( /\ self.kind = "vector"
    /\ call.op = "magnitude="
    /\ call.before.x = Zero
    /\ call.before.y = Zero ) =>
    /\ ret = NoValue
    /\ IsNaN(self.x)
    /\ IsNaN(self.y)

\* the magnitude of the zero vector was set to 0, and the vector is
\* (NaN, NaN)
C16_Witness ==
  /\ self.kind = "vector"
  /\ call.op = "magnitude="
  /\ call.before = Vector2D(Zero, Zero)
  /\ call.val = Zero
  /\ self = Vector2D(NaN, NaN)

-----------------------------------------------------------------------------
(* Properties of the getTile calls of Ray2D.cast *)

-----------------------------------------------------------------------------
(* Properties of CircleCollider.intersection *)

\* the vector from the centre of the queried circle to the centre given in
\* the call, its squared length and the combined radius
CentreOffset == Vec(Sub(call.x, self.x), Sub(call.y, self.y))
CentreOffset2 ==
  Add(Mul(CentreOffset.x, CentreOffset.x), Mul(CentreOffset.y, CentreOffset.y))
CombinedRadius == Add(self.radius, call.radius)

\* C18: for a circle C and a non-concentric object at (x, y) with radius r
\* that overlaps it, the hit of C.intersection(x, y, r) has a unit normal
\* along the centre-to-centre axis, delta equal to the normal scaled by the
\* overlap C.radius + r - distance, the other object translated by delta at
\* centre distance exactly C.radius + r, and pos on C's boundary at distance
\* C.radius from C's centre along the normal.
C18_HitGeometry ==
  ( /\ OnCircle("intersection")
    /\ CentreOffset # Vec(Zero, Zero)
    /\ Lt(CentreOffset2, Mul(CombinedRadius, CombinedRadius)) ) =>
    /\ IsHit(ret)
    /\ Add(Mul(ret.normal.x, ret.normal.x), Mul(ret.normal.y, ret.normal.y)) = One
    /\ Sub(Mul(ret.normal.x, CentreOffset.y), Mul(ret.normal.y, CentreOffset.x)) = Zero
    /\ ret.delta.x = Mul(ret.normal.x, Sub(CombinedRadius, Sqrt(CentreOffset2)))
    /\ ret.delta.y = Mul(ret.normal.y, Sub(CombinedRadius, Sqrt(CentreOffset2)))
    /\ Add(Mul(Add(CentreOffset.x, ret.delta.x), Add(CentreOffset.x, ret.delta.x)),
           Mul(Add(CentreOffset.y, ret.delta.y), Add(CentreOffset.y, ret.delta.y)))
         = Mul(CombinedRadius, CombinedRadius)
    /\ ret.pos.x = Add(self.x, Mul(ret.normal.x, self.radius))
    /\ ret.pos.y = Add(self.y, Mul(ret.normal.y, self.radius))

\* an overlapping object off the axes of the circle: a hit with a normal
\* that has two non-zero components
C18_Witness ==
  /\ OnCircle("intersection")
  /\ Gt(self.radius, Zero)
  /\ Gt(call.radius, Zero)
  /\ IsHit(ret)
  /\ IsFinite(ret.normal.x) /\ ret.normal.x # Zero
  /\ IsFinite(ret.normal.y) /\ ret.normal.y # Zero

-----------------------------------------------------------------------------
(* Properties of the hit of AABBCollider.vectorIntersection *)

\* C19: every non-null result of AABBCollider.vectorIntersection has time in
\* [0,1] (the overall near time clamped into that range, so 0 when the
\* origin is already inside the padded box) and pos equal to
\* origin + time * vector.  Stated for a padded box with a non-empty
\* interior.
C19_TimeInUnitInterval ==
  ( /\ OnBox("vectorIntersection")
    /\ IsHit(ret)
    /\ Lt(PaddedLoX, PaddedHiX)
    /\ Lt(PaddedLoY, PaddedHiY) ) =>
    /\ Le(Zero, ret.time)
    /\ Le(ret.time, One)
    /\ InsidePaddedAt(Zero) => ret.time = Zero
    /\ ret.pos.x = Add(call.origin.x, Mul(ret.time, call.vector.x))
    /\ ret.pos.y = Add(call.origin.y, Mul(ret.time, call.vector.y))

-----------------------------------------------------------------------------
(* Properties of the swept tests *)

\* the moving box and the static box do not overlap before the move
ApartAtStart == AABB_boxIntersection(self, call.box) = Null

\* C21: for a static box A, a moving box B that does not overlap A at its
\* start position and a non-zero vector, a non-null result of
\* A.sweptBoxIntersection(B, vector) has delta equal to time * vector, and B
\* translated by that delta does not overlap A.  Stated for boxes of
\* positive extent on both axes.
C21_SweptDeltaIsSafe ==
  ( /\ OnBox("sweptBoxIntersection")
    /\ call.vector # Vec(Zero, Zero)
    /\ ApartAtStart
    /\ Gt(self.rX, Zero) /\ Gt(self.rY, Zero)
    /\ Gt(call.box.rX, Zero) /\ Gt(call.box.rY, Zero)
    /\ IsHit(ret) ) =>
    /\ ret.delta.x = Mul(ret.time, call.vector.x)
    /\ ret.delta.y = Mul(ret.time, call.vector.y)
    /\ AABB_boxIntersection(self, Translate(call.box, ret.delta)) = Null

-----------------------------------------------------------------------------
(* The resolution axis of AABBCollider.intersection *)

\* the hit resolves along x, with a delta as long as the depth on x
ResolvesAlongX ==
  /\ ret.delta.y = Zero
  /\ ret.normal.y = Zero
  /\ Abs(ret.delta.x) = Num(PenetrationX(self, call))
\* the hit resolves along y, with a delta as long as the depth on y
ResolvesAlongY ==
  /\ ret.delta.x = Zero
  /\ ret.normal.x = Zero
  /\ Abs(ret.delta.y) = Num(PenetrationY(self, call))

\* C22: AABBCollider.intersection resolves along the axis with the smaller
\* penetration depth: along x when penetrationX < penetrationY, along y when
\* penetrationY < penetrationX, along x on equality; the magnitude of the
\* delta is the penetration depth on the chosen axis.
C22_ShallowerAxis ==
  (OnBox("intersection") /\ IsHit(ret)) =>
    /\ PenetrationX(self, call) <= PenetrationY(self, call) => ResolvesAlongX
    /\ PenetrationY(self, call) < PenetrationX(self, call) => ResolvesAlongY

-----------------------------------------------------------------------------
(* The contact position of CircleCollider.sweptCircleIntersection *)

\* the moving circle's centre at the moment of contact: its start centre
\* plus hit.delta
CentreAtContact == Translate(call.circle, ret.delta)
\* the squared distance from the centre of the static circle to hit.pos
PosDist2 ==
  Add(Mul(Sub(ret.pos.x, self.x), Sub(ret.pos.x, self.x)),
      Mul(Sub(ret.pos.y, self.y), Sub(ret.pos.y, self.y)))

\* C23: for a static circle S, a moving circle M and a non-zero vector with
\* a non-null hit from S.sweptCircleIntersection(M, vector), hit.pos is the
\* moving circle's centre at the moment of contact: pos equals M's start
\* centre plus hit.delta.
C23_PosIsMovingCentre ==
  ( /\ OnCircle("sweptCircleIntersection")
    /\ call.vector # Vec(Zero, Zero)
    /\ IsHit(ret) ) =>
    /\ ret.pos.x = CentreAtContact.x
    /\ ret.pos.y = CentreAtContact.y

\* C23, amended: hit.pos is the moving circle's centre at the moment of
\* contact (M's start centre plus hit.delta) retracted along hit.normal by
\* M's radius, which is the point of contact on the boundary of S.
C23_PosIsContactPoint ==
  ( /\ OnCircle("sweptCircleIntersection")
    /\ call.vector # Vec(Zero, Zero)
    /\ IsHit(ret) ) =>
    /\ ret.pos.x = Sub(CentreAtContact.x, Mul(ret.normal.x, call.circle.radius))
    /\ ret.pos.y = Sub(CentreAtContact.y, Mul(ret.normal.y, call.circle.radius))
    /\ PosDist2 = Mul(self.radius, self.radius)

\* a moving circle of positive radius, apart from a static circle of
\* positive radius, moved forward into contact with it, and hit.pos is not
\* the moving circle's centre at contact
C23_Witness ==
  /\ OnCircle("sweptCircleIntersection")
  /\ call.vector # Vec(Zero, Zero)
  /\ IsHit(ret)
  /\ Gt(self.radius, Zero)
  /\ Gt(call.circle.radius, Zero)
  /\ ~Circle_collision(self, call.circle)
  /\ Gt(Add(Mul(ret.delta.x, call.vector.x), Mul(ret.delta.y, call.vector.y)), Zero)
  /\ ret.pos # Vec(CentreAtContact.x, CentreAtContact.y)
  /\ PosDist2 = Mul(self.radius, self.radius)

-----------------------------------------------------------------------------
(* The path of Ray2D.cast through the grid *)

\* the cell that contains the origin of the ray
OriginCell == [x |-> Floor(ray.origin.x), y |-> Floor(ray.origin.y)]
\* two cells that share a side
FourNeighbours(a, b) ==
  \/ a.y = b.y /\ Abs(Sub(a.x, b.x)) = One
  \/ a.x = b.x /\ Abs(Sub(a.y, b.y)) = One
\* the cell the cast stands in after k queries
CellAfter(k) == IF k = 0 THEN OriginCell ELSE cast.calls[k]
\* an iteration of the loop has run
Iterated ==
  /\ cast.pc = "loop"
  /\ cast'.calls # cast.calls
\* the iteration moved one cell along x and asked for the cell it entered
MovedAlongX ==
  /\ Abs(Sub(cast'.locals.mapPosX, cast.locals.mapPosX)) = One
  /\ cast'.locals.mapPosY = cast.locals.mapPosY
\* the iteration moved one cell along y
MovedAlongY ==
  /\ Abs(Sub(cast'.locals.mapPosY, cast.locals.mapPosY)) = One
  /\ cast'.locals.mapPosX = cast.locals.mapPosX

\* C24: each iteration of Ray2D.cast advances exactly one grid cell along
\* exactly one axis, the axis with the smaller accumulated distance (y when
\* the two are equal), and queries getTile for the cell just entered;
\* consecutive queried cells are 4-neighbours, the first queried cell is a
\* 4-neighbour of the cell containing the origin, and the origin's own cell
\* is never queried.
C24_OneCellPerIteration ==
  /\ [][Iterated =>
          /\ Len(cast'.calls) = Len(cast.calls) + 1
          /\ IF Lt(cast.locals.stepDistX, cast.locals.stepDistY)
               THEN MovedAlongX ELSE MovedAlongY
          /\ cast'.calls[Len(cast'.calls)].x = cast'.locals.mapPosX
          /\ cast'.calls[Len(cast'.calls)].y = cast'.locals.mapPosY]_vars
  /\ [](cast.pc \in {"loop", "done"} =>
          \A k \in 1..Len(cast.calls) :
            /\ FourNeighbours(CellAfter(k - 1), cast.calls[k])
            /\ ~(cast.calls[k].x = OriginCell.x /\ cast.calls[k].y = OriginCell.y))

\* a cast that began with equal accumulated distances on the two axes moved
\* along y first and then along x, and has asked for three cells
C24_Witness ==
  /\ cast.pc \in {"loop", "done"}
  /\ Len(cast.calls) = 3
  /\ castSetup(ray.origin, ray.vector).stepDistX
       = castSetup(ray.origin, ray.vector).stepDistY
  /\ cast.calls[1].x = OriginCell.x
  /\ cast.calls[1].y # OriginCell.y
  /\ cast.calls[2].x # OriginCell.x

-----------------------------------------------------------------------------
(* The hit descriptor of Ray2D.cast *)

\* the blocking cell of a hit and the cell the ray stepped into it from
HitCell == cast.calls[Len(cast.calls)]
CellBefore == CellAfter(Len(cast.calls) - 1)
\* the final step was taken along x
FinalStepAlongX == HitCell.x # CellBefore.x
\* the origin, the direction and the cells on the axis of the final step
SteppedOrigin == IF FinalStepAlongX THEN ray.origin.x ELSE ray.origin.y
SteppedVector == IF FinalStepAlongX THEN ray.vector.x ELSE ray.vector.y
SteppedFrom == IF FinalStepAlongX THEN CellBefore.x ELSE CellBefore.y
SteppedInto == IF FinalStepAlongX THEN HitCell.x ELSE HitCell.y
\* the face the ray entered the blocking cell through: its low face when
\* the step was +1, its high face when the step was -1
EntryFace ==
  IF Gt(SteppedInto, SteppedFrom) THEN SteppedInto ELSE Add(SteppedInto, One)
CastHit == cast.pc = "done" /\ cast.ret.kind = "hit"

\* C25: for every hit returned by Ray2D.cast with a direction whose stepped
\* component is non-zero, axis names the grid axis along which the final
\* step was taken, and distance is the non-negative ray parameter t at which
\* origin + t * vector lies on the face through which the ray entered the
\* blocking cell.
C25_DistanceToEntryFace ==
  (CastHit /\ SteppedVector # Zero) =>
    /\ cast.ret.axis = (IF FinalStepAlongX THEN "x" ELSE "y")
    /\ Ge(cast.ret.distance, Zero)
    /\ Add(SteppedOrigin, Mul(cast.ret.distance, SteppedVector)) = EntryFace

\* a ray going down and to the left entered a blocking cell through its
\* high face after stepping along both axes
C25_Witness ==
  /\ CastHit
  /\ Len(cast.calls) >= 2
  /\ Lt(SteppedVector, Zero)
  /\ EntryFace = Add(SteppedInto, One)
  /\ OriginCell.x # HitCell.x
  /\ OriginCell.y # HitCell.y
  /\ Gt(cast.ret.distance, Zero)

\* the origin, the direction and the blocking cell on the axis
\* perpendicular to the final step
AcrossOrigin == IF FinalStepAlongX THEN ray.origin.y ELSE ray.origin.x
AcrossVector == IF FinalStepAlongX THEN ray.vector.y ELSE ray.vector.x
AcrossCell == IF FinalStepAlongX THEN HitCell.y ELSE HitCell.x
\* the perpendicular coordinate of the point where the ray crossed the
\* boundary of the blocking cell
CrossingPoint == Add(AcrossOrigin, Mul(cast.ret.distance, AcrossVector))

\* C26: for every hit returned by Ray2D.cast from a non-negative origin,
\* offset is the fractional position along the perpendicular axis at which
\* the ray crossed the blocking cell's boundary: the crossing point's
\* perpendicular coordinate minus the blocking cell's integer coordinate on
\* that axis, a number in [0,1].  Stated for a direction whose stepped
\* component is non-zero.
C26_OffsetIsFraction ==
  ( /\ CastHit
    /\ SteppedVector # Zero
    /\ Ge(ray.origin.x, Zero)
    /\ Ge(ray.origin.y, Zero) ) =>
    /\ cast.ret.offset = Sub(CrossingPoint, AcrossCell)
    /\ Ge(cast.ret.offset, Zero)
    /\ Le(cast.ret.offset, One)

-----------------------------------------------------------------------------
(* The ray directions of RayCamera2D.rayCast *)

\* half the field of view
HalfFov == Div(cam.fov, Num(2))
\* the signed offset of column i of N: (2 * i / (N - 1) - 1) * fov / 2
SignedOffset(i) ==
  Mul(Sub(Div(Num(2 * i), Num(Length(cam.scene) - 1)), One), HalfFov)
\* the squared magnitude of a vector
Magnitude2(v) == Add(Mul(v.x, v.x), Mul(v.y, v.y))
\* the heading turned and stretched by the basis (1, offset), as
\* Vector2D.rotate(1, offset, 1) turns a vector
TurnedBy(offset) ==
  Vec(Sub(cam.direction.x, Mul(offset, cam.direction.y)),
      Add(cam.direction.y, Mul(offset, cam.direction.x)))
\* the direction rayCast gave to the ray of column i
DirectionOf(i) == fan.vectors[i + 1]
\* the columns rayCast has cast so far, on a camera of two columns or more
CastColumns ==
  IF fan.pc # "idle" /\ Length(cam.scene) >= 2
    THEN 0..(fan.column - 1) ELSE {}
\* the column that mirrors column i
Mirror(i) == Length(cam.scene) - 1 - i

-----------------------------------------------------------------------------
(* The Ray2D constructor *)

\* rayCast has constructed its ray, new Ray2D(position, direction), and has
\* not yet set the vector of a column
FreshRay == fan.pc = "columns" /\ fan.column = 0

\* C28: a Ray2D constructed as new Ray2D(origin, vector) has origin equal
\* to the given origin and propagation vector equal to the given vector, so
\* that a cast of the fresh ray traces from origin along vector.
C28_ConstructorKeepsVector ==
  FreshRay =>
    /\ ray.origin = cam.position
    /\ ray.vector = cam.direction
    /\ Ray2D_cast(ray, fan.map, cam.range)
         = Ray2D_cast([origin |-> cam.position, vector |-> cam.direction],
                      fan.map, cam.range)

-----------------------------------------------------------------------------
(* The frame of the collider queries *)

\* the components of a hit
HitComponents(h) ==
  {h.delta.x, h.delta.y, h.normal.x, h.normal.y, h.pos.x, h.pos.y}
\* a hit that holds a reference to an object it was given
SharesInput(h) == ObjectRef \in HitComponents(h)

\* C29: every collider query leaves both colliders and the origin and
\* vector arguments unchanged, and the returned hit shares no mutable object
\* with its inputs.  The collider queried is self and the arguments are
\* held in call.
C29_QueriesArePure ==
  /\ [][self' = self /\ (call # NoCall => call' = call)]_vars
  /\ []((call # NoCall /\ IsHit(ret)) => ~SharesInput(ret))

-----------------------------------------------------------------------------
(* The rotations of Vector2D *)

\* the last two operations were op1 and then op2, with the same basis
RotatedThen(op1, op2) ==
  /\ self.kind = "vector"
  /\ call.op = op2
  /\ call.prev.op = op1
  /\ call.prev.vector = call.vector
\* the vector before the two rotations
Start == call.prev.before
\* x * x + y * y of the basis
BasisNorm2 ==
  Add(Mul(call.vector.x, call.vector.x), Mul(call.vector.y, call.vector.y))

\* C30: for every vector v and every rotation basis r = (x, y),
\* v.rotateByVector(r) followed by v.unrotateByVector(r) yields v scaled by
\* x * x + y * y; for a unit basis the pair restores v exactly, and
\* rotate(x, y, 1) and rotate(x, y, -1) are inverses of each other, in
\* either order.
C30_RotateUnrotate ==
  /\ RotatedThen("rotateByVector", "unrotateByVector") =>
       /\ self.x = Mul(Start.x, BasisNorm2)
       /\ self.y = Mul(Start.y, BasisNorm2)
       /\ BasisNorm2 = One => self = Start
  /\ (RotatedThen("unrotateByVector", "rotateByVector") /\ BasisNorm2 = One) =>
       self = Start

\* a vector off the axes was rotated by a unit basis off the axes and
\* rotated back: it moved and came back
C30_Witness ==
  /\ RotatedThen("rotateByVector", "unrotateByVector")
  /\ call.vector = Vec(Norm(3, 5), Norm(4, 5))
  /\ Start.x # Zero
  /\ Start.y # Zero
  /\ call.before # Start
  /\ self = Start

=============================================================================
